---- MODULE Spec2Model ----
(***************************************************************************)
(* Verification model of beaesthetic-analytics.                            *)
(*                                                                         *)
(*  - the adaptive TTL cache: analytics/cache.py (async_cached, _ttu and   *)
(*    the TLRUCache it is built on), specification Spec;                   *)
(*  - the period comparison calculator: analytics/services/analytics.py    *)
(*    (_summarize, compute_mom, compute_yoy, get_daily_breakdown) behind    *)
(*    the endpoints of main.py, specification SpecAnalytics;                *)
(*  - the insights calculator: analytics/services/insights.py               *)
(*    (get_inactive_customers), specification SpecInsights;                 *)
(*  - the metric registry of analytics/metrics with the dependency          *)
(*    resolver and the scalar mode of the aggregation engine,               *)
(*    specification SpecMetrics.                                            *)
(***************************************************************************)
EXTENDS Integers, Sequences, FiniteSets, TLC

VARIABLES
    mono,       \* time.monotonic(), the cache's timer (cache.py:32)
    wall,       \* datetime.now(), the wall clock read at cache.py:26 and :58
    version,    \* revision of the data the wrapped computations read
    cache,      \* TLRUCache: its items in OrderedDict order, LRU first
    pc,         \* per task: where its wrapper call stands
    call,       \* per task: the call (self, fn, args, kwargs) it makes
    result,     \* per task: local `result` (cache.py:53)
    end_date,   \* per task: local `end_date` (cache.py:58)
    ret,        \* per task: what the wrapper returned to its caller
    recency,    \* history: stored keys by last access (hit or insert)
    started,    \* number of wrapper calls started so far
    inserted,   \* history: per key, the value the wrapper inserted last
    db,         \* the agenda collection, as find_by_created_at_range sees it
    resp,       \* the response of the comparison request being served
    customers,  \* the customers collection, as find_all_as_lazy sees it
    agenda,     \* the agenda collection, as find_as_lazy sees it
    insight,    \* the response of the insights request being served
    batch,      \* the batch of appointment rows the metrics are computed over
    computed    \* the outcome of the metric request being served

vars == <<mono, wall, version, cache, pc, call, result, end_date, ret,
          recency, started, inserted, db, resp, customers, agenda, insight, batch,
          computed>>

cacheVars == <<mono, wall, version, cache, pc, call, result, end_date, ret,
               recency, started, inserted>>

analyticsVars == <<db, resp>>

insightsVars == <<customers, agenda, insight>>

metricsVars == <<batch, computed>>

----------------------------------------------------------------------------
(* Bounds of the model.                                                    *)

\* the monotonic clock runs from 0 to MaxTime
MaxTime == 3
\* wrapper calls started in one behaviour
MaxCalls == 4
\* revisions of the underlying data
MaxVersion == 1

\* documents in the agenda collection
MaxAppointments == 3

\* the concurrent tasks (requests) sharing the cache
Tasks == {1, 2}

\* the wall clock's reading when the monotonic clock reads 0
WallStart == 2

----------------------------------------------------------------------------
(* Settings (config.py).  The values are read from the environment         *)
(* (env_prefix ANALYTICS_); the model fixes a configuration small enough    *)
(* for expiry and eviction to happen within MaxTime and MaxCalls.          *)

cache_maxsize == 2
cache_ttl_closed == 2
cache_ttl_open == 1

\* async_cached(cache, *, end_date_arg="end_date")
end_date_arg == "end_date"

----------------------------------------------------------------------------
(* Argument values.  A value is hashable (a datetime, an int) or not (a    *)
(* list); v orders datetimes.                                              *)

Dt(n) == [hashable |-> TRUE, v |-> n]
ListArg == [hashable |-> FALSE, v |-> 0]

\* Signatures of the wrapped methods, `self` left out.
Params(fn) ==
    CASE fn = "get_daily_breakdown" -> <<"start_date", "end_date">>
      [] fn = "get_monthly_trend" -> <<"year">>

\* Alphabetical rank of a keyword name: the order sorted() puts the items in.
NameRank(name) ==
    CASE name = "end_date" -> 1
      [] name = "start_date" -> 2
      [] name = "year" -> 3

Receivers == {"svc1", "svc2"}

\* The calls the tasks make: a period that closed before WallStart passed
\* positionally, a period that closes while the model runs passed by keyword
\* (in both orders, and on another receiver), a method with no end_date
\* parameter, and an unhashable argument.
CallSet ==
    {[self |-> "svc1", fn |-> "get_daily_breakdown",
      args |-> <<Dt(0), Dt(1)>>, kwargs |-> <<>>]}
    \cup {[self |-> r, fn |-> "get_daily_breakdown", args |-> <<>>,
           kwargs |-> <<<<"start_date", Dt(0)>>, <<"end_date", Dt(3)>>>>] :
          r \in Receivers}
    \cup {[self |-> "svc1", fn |-> "get_daily_breakdown", args |-> <<>>,
           kwargs |-> <<<<"end_date", Dt(3)>>, <<"start_date", Dt(0)>>>>]}
    \cup {[self |-> "svc1", fn |-> "get_monthly_trend",
           args |-> <<a>>, kwargs |-> <<>>] : a \in {Dt(2), ListArg}}

----------------------------------------------------------------------------
(* The cache key (cache.py:45).                                            *)

RECURSIVE InsertSorted(_, _)
InsertSorted(item, s) ==
    IF s = <<>> THEN <<item>>
    ELSE IF NameRank(item[1]) <= NameRank(Head(s)[1]) THEN <<item>> \o s
    ELSE <<Head(s)>> \o InsertSorted(item, Tail(s))

RECURSIVE Sorted(_)
Sorted(kw) ==
    IF kw = <<>> THEN <<>> ELSE InsertSorted(Head(kw), Sorted(Tail(kw)))

\* A key that also tells the receivers apart: `self` is added to the keyword
\* items.
Key_Receiver(c) ==
    <<c.fn, c.args,
      Sorted(c.kwargs) \o <<<<"self", Dt(IF c.self = "svc1" THEN 1 ELSE 2)>>>>>>

\* key = (fn.__name__, args, tuple(sorted(kwargs.items())))
Key(c) == <<c.fn, c.args, Sorted(c.kwargs)>>

\* hash(key) raises TypeError when an element is unhashable
Hashable(key) ==
    /\ \A i \in 1..Len(key[2]) : key[2][i].hashable
    /\ \A i \in 1..Len(key[3]) : key[3][i][2].hashable

\* inspect.signature(fn).bind(self, *args, **kwargs): the value of each
\* parameter, in signature order
BoundArgs(c) ==
    [i \in 1..Len(Params(c.fn)) |->
        IF i <= Len(c.args) THEN c.args[i]
        ELSE LET j == CHOOSE j \in 1..Len(c.kwargs) :
                          c.kwargs[j][1] = Params(c.fn)[i]
             IN c.kwargs[j][2]]

\* bound.arguments.get(end_date_arg, datetime.now(timezone.utc)) (cache.py:58)
EndDateOf(c, wallnow) ==
    IF \E i \in 1..Len(Params(c.fn)) : Params(c.fn)[i] = end_date_arg
    THEN LET i == CHOOSE i \in 1..Len(Params(c.fn)) :
                      Params(c.fn)[i] = end_date_arg
         IN BoundArgs(c)[i]
    ELSE Dt(wallnow)

HasEndDateArg(c) ==
    \E i \in 1..Len(Params(c.fn)) : Params(c.fn)[i] = end_date_arg

\* What `await fn(self, *args, **kwargs)` evaluates to: determined by the
\* receiver, the method, its arguments and the data it reads.
FnResult(c, ver) ==
    [self |-> c.self, fn |-> c.fn, bound |-> BoundArgs(c), ver |-> ver]

None == [self |-> "None", fn |-> "None", bound |-> <<>>, ver |-> 0]

----------------------------------------------------------------------------
(* cachetools.TLRUCache(maxsize, ttu=_ttu, timer=time.monotonic)           *)
(* (cache.py:32).  An item is [key, value, end_date, expires]; value and    *)
(* end_date are the _CacheEntry, expires the item's time-to-use.            *)

\* _ttu with the comparison slipped to <=: a period ending exactly now
\* counts as closed.
_ttu_le(entry_end_date, now, wallnow) ==
    IF entry_end_date.v <= wallnow THEN now + cache_ttl_closed
    ELSE now + cache_ttl_open

\* _ttu (cache.py:24-28)
_ttu(entry_end_date, now, wallnow) ==
    IF entry_end_date.v < wallnow THEN now + cache_ttl_closed
    ELSE now + cache_ttl_open

KeysOf(c) == {c[i].key : i \in 1..Len(c)}

IndexOf(c, key) == CHOOSE i \in 1..Len(c) : c[i].key = key

ItemOf(c, key) == c[IndexOf(c, key)]

\* OrderedDict.move_to_end
MoveToEnd(c, i) == SubSeq(c, 1, i - 1) \o SubSeq(c, i + 1, Len(c)) \o <<c[i]>>

\* TLRUCache.expire(time): drops every item with not (time < expires)
Expire(c, time) == SelectSeq(c, LAMBDA it : time < it.expires)

\* __getitem__ without move_to_end: eviction order becomes insertion order.
GetItem_NoMove(c, key, time) ==
    IF ~Hashable(key) THEN [status |-> "TypeError", value |-> None, cache |-> c]
    ELSE IF key \notin KeysOf(c)
    THEN [status |-> "KeyError", value |-> None, cache |-> c]
    ELSE IF time < c[IndexOf(c, key)].expires
    THEN [status |-> "ok", value |-> c[IndexOf(c, key)].value, cache |-> c]
    ELSE [status |-> "KeyError", value |-> None, cache |-> c]

\* __getitem__ that never tests the expiry: a stored item is always served.
GetItem_Stale(c, key, time) ==
    IF ~Hashable(key) THEN [status |-> "TypeError", value |-> None, cache |-> c]
    ELSE IF key \notin KeysOf(c)
    THEN [status |-> "KeyError", value |-> None, cache |-> c]
    ELSE [status |-> "ok", value |-> c[IndexOf(c, key)].value,
          cache |-> MoveToEnd(c, IndexOf(c, key))]

\* __getitem__ with the expiry test slipped to time <= expires.
GetItem_Le(c, key, time) ==
    IF ~Hashable(key) THEN [status |-> "TypeError", value |-> None, cache |-> c]
    ELSE IF key \notin KeysOf(c)
    THEN [status |-> "KeyError", value |-> None, cache |-> c]
    ELSE IF time <= c[IndexOf(c, key)].expires
    THEN [status |-> "ok", value |-> c[IndexOf(c, key)].value,
          cache |-> MoveToEnd(c, IndexOf(c, key))]
    ELSE [status |-> "KeyError", value |-> None,
          cache |-> MoveToEnd(c, IndexOf(c, key))]

\* __getitem__ that serves the value at the head of the order, whatever key
\* it is stored under.
GetItem_Oldest(c, key, time) ==
    IF ~Hashable(key) THEN [status |-> "TypeError", value |-> None, cache |-> c]
    ELSE IF key \notin KeysOf(c)
    THEN [status |-> "KeyError", value |-> None, cache |-> c]
    ELSE LET i == IndexOf(c, key)
             moved == MoveToEnd(c, i)
         IN IF time < c[i].expires
            THEN [status |-> "ok", value |-> c[1].value, cache |-> moved]
            ELSE [status |-> "KeyError", value |-> None, cache |-> moved]

\* cache[key] (TLRUCache.__getitem__): the key is hashed, the item moved to
\* the end of the order, then its expiry tested; an expired item stays stored.
GetItem(c, key, time) ==
    IF ~Hashable(key) THEN [status |-> "TypeError", value |-> None, cache |-> c]
    ELSE IF key \notin KeysOf(c)
    THEN [status |-> "KeyError", value |-> None, cache |-> c]
    ELSE LET i == IndexOf(c, key)
             moved == MoveToEnd(c, i)
         IN IF time < c[i].expires
            THEN [status |-> "ok", value |-> c[i].value, cache |-> moved]
            ELSE [status |-> "KeyError", value |-> None, cache |-> moved]

\* Cache.__setitem__'s `while currsize + size > maxsize: self.popitem()`;
\* popitem drops the first (least recently used) item.
RECURSIVE PopWhileFull(_)
PopWhileFull(c) ==
    IF Len(c) + 1 > cache_maxsize /\ c # <<>> THEN PopWhileFull(Tail(c)) ELSE c

\* __setitem__ that keeps the item already stored under the key (setdefault).
SetItem_KeepFirst(c, key, value, entry_end_date, time, wallnow) ==
    LET expires == _ttu(entry_end_date, time, wallnow)
        item == [key |-> key, value |-> value, end_date |-> entry_end_date,
                 expires |-> expires]
        live == Expire(c, time)
    IN IF ~(time < expires) THEN c
       ELSE IF key \in KeysOf(live) THEN MoveToEnd(live, IndexOf(live, key))
       ELSE PopWhileFull(live) \o <<item>>

\* cache[key] = entry (TLRUCache.__setitem__): the ttu is computed first, an
\* already expired item is skipped, expired items are dropped, room is made
\* for a new key, and the item ends up last in the order.
SetItem(c, key, value, entry_end_date, time, wallnow) ==
    LET expires == _ttu(entry_end_date, time, wallnow)
        item == [key |-> key, value |-> value, end_date |-> entry_end_date,
                 expires |-> expires]
        live == Expire(c, time)
    IN IF ~(time < expires) THEN c
       ELSE IF key \in KeysOf(live)
       THEN SubSeq(MoveToEnd(live, IndexOf(live, key)), 1, Len(live) - 1)
                \o <<item>>
       ELSE PopWhileFull(live) \o <<item>>

----------------------------------------------------------------------------
(* async_cached.wrapper (cache.py:44-62).  A task's pc is "idle" before    *)
(* its first call, "awaiting" inside `await fn(...)` (cache.py:53), "bound" *)
(* between cache.py:58 and :60, and then names how the call ended: "hit"    *)
(* (returned at :49), "stored" (returned at :62), "TypeError" (the lookup   *)
(* raised) or "failed" (fn raised).                                         *)

Terminal == {"idle", "hit", "stored", "TypeError", "failed"}

\* Between cache.py:53 and :62 the task does not await: no other task runs.
NoneRunning == \A u \in Tasks : pc[u] # "bound"

\* The keys the calls can be stored under.
HashableKeys == {Key(c) : c \in {c \in CallSet : Hashable(Key(c))}}

\* The history of inserts (cache.py:60): the value last inserted under each
\* key.
Record(ins, key, value, c) == [ins EXCEPT ![key] = value]

\* The history of accesses, kept for the stored keys only.
Touch(r, key, c) == SelectSeq(r, LAMBDA k : k # key /\ k \in KeysOf(c)) \o <<key>>

\* The try block with `except Exception: pass`: a failed lookup falls back to
\* the uncached computation.
AfterLookup_Swallow(status) ==
    CASE status = "ok" -> "hit"
      [] OTHER -> "awaiting"

\* cache.py:46-51: what the try block does with the lookup's outcome.  A
\* KeyError falls through to the computation; any other exception propagates.
AfterLookup(status) ==
    CASE status = "ok" -> "hit"
      [] status = "KeyError" -> "awaiting"
      [] OTHER -> status

\* cache.py:45-53: build the key and look it up; a hit returns the entry's
\* value, a miss enters fn.
Call(t, c) ==
    /\ pc[t] \in Terminal
    /\ NoneRunning
    /\ started < MaxCalls
    /\ started' = started + 1
    /\ call' = [call EXCEPT ![t] = c]
    /\ LET got == GetItem(cache, Key(c), mono)
       IN /\ cache' = got.cache
          /\ pc' = [pc EXCEPT ![t] = AfterLookup(got.status)]
          /\ ret' = [ret EXCEPT ![t] = got.value]
          /\ recency' = IF got.status = "ok"
                        THEN Touch(recency, Key(c), got.cache)
                        ELSE recency
    /\ UNCHANGED <<mono, wall, version, result, end_date, inserted, db, resp>>
    /\ UNCHANGED <<insightsVars, metricsVars>>

\* cache.py:53-58: fn returns; the end date is taken from the bound
\* arguments, or from the wall clock when fn has no such parameter.
Return(t) ==
    /\ pc[t] = "awaiting"
    /\ NoneRunning
    /\ pc' = [pc EXCEPT ![t] = "bound"]
    /\ result' = [result EXCEPT ![t] = FnResult(call[t], version)]
    /\ end_date' = [end_date EXCEPT ![t] = EndDateOf(call[t], wall)]
    /\ UNCHANGED <<mono, wall, version, cache, call, ret, recency, started,
                   inserted, db, resp>>
    /\ UNCHANGED <<insightsVars, metricsVars>>

\* fn raises and the wrapper remembers the failure: an entry holding no
\* value is stored under the key.
Fail_CacheNone(t) ==
    /\ pc[t] = "awaiting"
    /\ NoneRunning
    /\ pc' = [pc EXCEPT ![t] = "failed"]
    /\ cache' = SetItem(cache, Key(call[t]), None, EndDateOf(call[t], wall),
                        mono, wall)
    /\ recency' = Touch(recency, Key(call[t]), cache')
    /\ inserted' = Record(inserted, Key(call[t]), None, cache')
    /\ UNCHANGED <<mono, wall, version, call, result, end_date, ret,
                   started, db, resp>>
    /\ UNCHANGED <<insightsVars, metricsVars>>

\* cache.py:53: fn raises; the exception leaves the wrapper.
Fail(t) ==
    /\ pc[t] = "awaiting"
    /\ NoneRunning
    /\ pc' = [pc EXCEPT ![t] = "failed"]
    /\ UNCHANGED <<mono, wall, version, cache, call, result, end_date, ret,
                   recency, started, inserted, db, resp>>
    /\ UNCHANGED <<insightsVars, metricsVars>>

\* cache.py:60-62: store the entry and return the result.
Insert(t) ==
    /\ pc[t] = "bound"
    /\ cache' = SetItem(cache, Key(call[t]), result[t], end_date[t], mono, wall)
    /\ pc' = [pc EXCEPT ![t] = "stored"]
    /\ ret' = [ret EXCEPT ![t] = result[t]]
    /\ result' = [result EXCEPT ![t] = None]
    /\ end_date' = [end_date EXCEPT ![t] = Dt(0)]
    /\ recency' = Touch(recency, Key(call[t]), cache')
    /\ inserted' = Record(inserted, Key(call[t]), result[t], cache')
    /\ UNCHANGED <<mono, wall, version, call, started, db, resp>>
    /\ UNCHANGED <<insightsVars, metricsVars>>

\* Time passes: both clocks advance.
Tick ==
    /\ mono < MaxTime
    /\ mono' = mono + 1
    /\ wall' = wall + 1
    /\ UNCHANGED <<version, cache, pc, call, result, end_date, ret, recency,
                   started, inserted, db, resp>>
    /\ UNCHANGED <<insightsVars, metricsVars>>

\* The data the computations read changes (new appointments land).
DataChange ==
    /\ version < MaxVersion
    /\ NoneRunning
    /\ version' = version + 1
    /\ UNCHANGED <<mono, wall, cache, pc, call, result, end_date, ret,
                   recency, started, inserted, db, resp>>
    /\ UNCHANGED <<insightsVars, metricsVars>>

InitCache ==
    /\ mono = 0
    /\ wall = WallStart
    /\ version = 0
    /\ cache = <<>>
    /\ pc = [t \in Tasks |-> "idle"]
    /\ call = [t \in Tasks |->
                 [self |-> "svc1", fn |-> "get_monthly_trend",
                  args |-> <<Dt(2)>>, kwargs |-> <<>>]]
    /\ result = [t \in Tasks |-> None]
    /\ end_date = [t \in Tasks |-> Dt(0)]
    /\ ret = [t \in Tasks |-> None]
    /\ recency = <<>>
    /\ started = 0
    /\ inserted = [k \in HashableKeys |-> None]

----------------------------------------------------------------------------
(* The agenda collection and the comparison calculator                     *)
(* (services/analytics.py).  A datetime is <<year, month, day>>; a rate or  *)
(* a percentage is kept in hundredths (3333 is 33.33).                      *)

datetime(y, m, d) == <<y, m, d>>

\* a < b on datetimes
Before(a, b) ==
    \/ a[1] < b[1]
    \/ a[1] = b[1] /\ a[2] < b[2]
    \/ a[1] = b[1] /\ a[2] = b[2] /\ a[3] < b[3]

\* The year the requests ask for, and what the documents' createdAt and
\* cancellation fields may be.
Years == {2024}
Months == 1..12
CreatedAts ==
    {datetime(2023, 12, 1), datetime(2023, 12, 31), datetime(2024, 1, 1),
     datetime(2024, 11, 30), datetime(2024, 12, 1), datetime(2025, 1, 1)}
Cancellations ==
    {[isCancelled |-> FALSE, cancelReason |-> "None"],
     [isCancelled |-> TRUE, cancelReason |-> "CUSTOMER_CANCEL"],
     [isCancelled |-> TRUE, cancelReason |-> "NO_REASON"]}
Documents ==
    {[createdAt |-> d, isCancelled |-> c.isCancelled,
      cancelReason |-> c.cancelReason] : d \in CreatedAts, c \in Cancellations}

\* The repository's range query: createdAt >= start_date and < end_date.
find_by_created_at_range(coll, start, end) ==
    SelectSeq(coll, LAMBDA apt : /\ ~Before(apt.createdAt, start)
                                 /\ Before(apt.createdAt, end))

\* _load_dataframe: the columns kept of each document (the cancellation
\* reason is not among them).
_load_dataframe(coll, start, end) ==
    LET appointments == find_by_created_at_range(coll, start, end)
    IN [i \in 1..Len(appointments) |->
           [isCancelled |-> appointments[i].isCancelled,
            createdAt |-> appointments[i].createdAt]]

\* round half to even of n / d, d > 0
RoundDiv(n, d) ==
    LET q == n \div d
        r == n % d
    IN IF 2 * r < d THEN q
       ELSE IF 2 * r > d THEN q + 1
       ELSE IF q % 2 = 0 THEN q ELSE q + 1

\* f"{year}-{month:02d}"
MonthLabel(year, month) ==
    ToString(year) \o "-" \o (IF month < 10 THEN "0" ELSE "") \o ToString(month)

\* pl.col("isCancelled").sum()
SumCancelled(df) == Cardinality({i \in 1..Len(df) : df[i].isCancelled})

\* _summarize with the rate truncated instead of rounded.
_summarize_trunc(df, period) ==
    IF df = <<>>
    THEN [period |-> period, total_count |-> 0, cancelled_count |-> 0,
          completed_count |-> 0, cancellation_rate |-> 0]
    ELSE [period |-> period, total_count |-> Len(df),
          cancelled_count |-> SumCancelled(df),
          completed_count |-> Len(df) - SumCancelled(df),
          cancellation_rate |-> (SumCancelled(df) * 10000) \div Len(df)]

\* AnalyticsService._summarize
_summarize(df, period) ==
    IF df = <<>>
    THEN [period |-> period, total_count |-> 0, cancelled_count |-> 0,
          completed_count |-> 0, cancellation_rate |-> 0]
    ELSE LET total == Len(df)
             cancelled == SumCancelled(df)
         IN [period |-> period, total_count |-> total,
             cancelled_count |-> cancelled,
             completed_count |-> total - cancelled,
             cancellation_rate |->
                 IF total > 0 THEN RoundDiv(cancelled * 10000, total) ELSE 0]

\* A float of a response, or null.
Num(x) == [isNull |-> FALSE, v |-> x]
Null == [isNull |-> TRUE, v |-> 0]

\* The changes frame with the rate change taken relative to the previous
\* rate, as the count's percent change is.
Changes_Relative(current_summary, prev_summary) ==
    LET curr == current_summary.total_count
        prev == prev_summary.total_count
        curr_rate == current_summary.cancellation_rate
        prev_rate == prev_summary.cancellation_rate
    IN [count_change |-> curr - prev,
        count_pct |-> IF prev > 0
                      THEN Num(RoundDiv((curr - prev) * 10000, prev))
                      ELSE Num(0),
        rate_change |-> IF prev_rate > 0
                        THEN RoundDiv((curr_rate - prev_rate) * 10000, prev_rate)
                        ELSE 0]

\* The `changes` frame of compute_mom and compute_yoy.
Changes(current_summary, prev_summary) ==
    LET curr == current_summary.total_count
        prev == prev_summary.total_count
    IN [count_change |-> curr - prev,
        count_pct |-> IF prev > 0
                      THEN Num(RoundDiv((curr - prev) * 10000, prev))
                      ELSE Num(0),
        rate_change |-> current_summary.cancellation_rate
                            - prev_summary.cancellation_rate]

\* The filter with | in place of &: a row of the year or of the month passes.
FilterYearMonth_Or(df, year, month) ==
    SelectSeq(df, LAMBDA row : row.createdAt[1] = year \/ row.createdAt[2] = month)

\* df.filter((pl.col("_year") == year) & (pl.col("_month") == month))
FilterYearMonth(df, year, month) ==
    SelectSeq(df, LAMBDA row : row.createdAt[1] = year /\ row.createdAt[2] = month)

\* compute_mom that forgets to step the year back for January: the previous
\* month of January is taken to be December of the same year.
compute_mom_NoRoll(coll, year, month) ==
    LET current_start == datetime(year, month, 1)
        current_end == IF month = 12 THEN datetime(year + 1, 1, 1)
                       ELSE datetime(year, month + 1, 1)
        prev_start == IF month = 12 THEN datetime(year, 11, 1)
                      ELSE IF month = 1 THEN datetime(year, 12, 1)
                      ELSE datetime(year, month - 1, 1)
        df == _load_dataframe(coll, prev_start, current_end)
        prev_month == IF month = 1 THEN 12 ELSE month - 1
        prev_year == year
        current_df == IF df = <<>> THEN df ELSE FilterYearMonth(df, year, month)
        prev_df == IF df = <<>> THEN df
                   ELSE FilterYearMonth(df, prev_year, prev_month)
        current_summary == _summarize(current_df, MonthLabel(year, month))
        prev_summary == _summarize(prev_df, MonthLabel(prev_year, prev_month))
        changes == Changes(current_summary, prev_summary)
    IN [kind |-> "mom", year |-> year, month |-> month,
        fetched |-> <<<<prev_start, current_end>>>>,
        current |-> current_summary,
        previous |-> prev_summary,
        count_change |-> changes.count_change,
        count_change_percent |-> changes.count_pct,
        cancellation_rate_change |-> changes.rate_change]

\* AnalyticsService.compute_mom
compute_mom(coll, year, month) ==
    LET current_start == datetime(year, month, 1)
        current_end == IF month = 12 THEN datetime(year + 1, 1, 1)
                       ELSE datetime(year, month + 1, 1)
        prev_start == IF month = 12 THEN datetime(year, 11, 1)
                      ELSE IF month = 1 THEN datetime(year - 1, 12, 1)
                      ELSE datetime(year, month - 1, 1)
        df == _load_dataframe(coll, prev_start, current_end)
        prev_month == IF month = 1 THEN 12 ELSE month - 1
        prev_year == IF month = 1 THEN year - 1 ELSE year
        current_df == IF df = <<>> THEN df ELSE FilterYearMonth(df, year, month)
        prev_df == IF df = <<>> THEN df
                   ELSE FilterYearMonth(df, prev_year, prev_month)
        current_summary == _summarize(current_df, MonthLabel(year, month))
        prev_summary == _summarize(prev_df, MonthLabel(prev_year, prev_month))
        changes == Changes(current_summary, prev_summary)
    IN [kind |-> "mom", year |-> year, month |-> month,
        fetched |-> <<<<prev_start, current_end>>>>,
        current |-> current_summary,
        previous |-> prev_summary,
        count_change |-> changes.count_change,
        count_change_percent |-> changes.count_pct,
        cancellation_rate_change |-> changes.rate_change]

\* compute_yoy whose previous range for December ends where the current one
\* does (the end boundary copied from the line above).
compute_yoy_PrevEnd(coll, year, month) ==
    LET withMonth == month # 0
        current_start == IF withMonth THEN datetime(year, month, 1)
                         ELSE datetime(year, 1, 1)
        current_end == IF withMonth /\ month # 12
                       THEN datetime(year, month + 1, 1)
                       ELSE datetime(year + 1, 1, 1)
        prev_start == IF withMonth THEN datetime(year - 1, month, 1)
                      ELSE datetime(year - 1, 1, 1)
        prev_end == IF withMonth /\ month # 12
                    THEN datetime(year - 1, month + 1, 1)
                    ELSE IF withMonth THEN datetime(year + 1, 1, 1)
                    ELSE datetime(year, 1, 1)
        current_period == IF withMonth THEN MonthLabel(year, month)
                          ELSE ToString(year)
        prev_period == IF withMonth THEN MonthLabel(year - 1, month)
                       ELSE ToString(year - 1)
        current_df == _load_dataframe(coll, current_start, current_end)
        prev_df == _load_dataframe(coll, prev_start, prev_end)
        current_summary == _summarize(current_df, current_period)
        prev_summary == _summarize(prev_df, prev_period)
        changes == Changes(current_summary, prev_summary)
    IN [kind |-> "yoy", year |-> year, month |-> month,
        fetched |-> <<<<current_start, current_end>>, <<prev_start, prev_end>>>>,
        current |-> current_summary,
        previous |-> prev_summary,
        count_change |-> changes.count_change,
        count_change_percent |-> changes.count_pct,
        cancellation_rate_change |-> changes.rate_change]

\* AnalyticsService.compute_yoy; month = 0 stands for None (`if month:`).
compute_yoy(coll, year, month) ==
    LET withMonth == month # 0
        current_start == IF withMonth THEN datetime(year, month, 1)
                         ELSE datetime(year, 1, 1)
        current_end == IF withMonth /\ month # 12
                       THEN datetime(year, month + 1, 1)
                       ELSE datetime(year + 1, 1, 1)
        prev_start == IF withMonth THEN datetime(year - 1, month, 1)
                      ELSE datetime(year - 1, 1, 1)
        prev_end == IF withMonth /\ month # 12
                    THEN datetime(year - 1, month + 1, 1)
                    ELSE datetime(year, 1, 1)
        current_period == IF withMonth THEN MonthLabel(year, month)
                          ELSE ToString(year)
        prev_period == IF withMonth THEN MonthLabel(year - 1, month)
                       ELSE ToString(year - 1)
        current_df == _load_dataframe(coll, current_start, current_end)
        prev_df == _load_dataframe(coll, prev_start, prev_end)
        current_summary == _summarize(current_df, current_period)
        prev_summary == _summarize(prev_df, prev_period)
        changes == Changes(current_summary, prev_summary)
    IN [kind |-> "yoy", year |-> year, month |-> month,
        fetched |-> <<<<current_start, current_end>>, <<prev_start, prev_end>>>>,
        current |-> current_summary,
        previous |-> prev_summary,
        count_change |-> changes.count_change,
        count_change_percent |-> changes.count_pct,
        cancellation_rate_change |-> changes.rate_change]

\* The dates of a frame in ascending order (.sort("date")).
RECURSIVE SortDates(_)
SortDates(S) ==
    IF S = {} THEN <<>>
    ELSE LET d == CHOOSE d \in S : \A e \in S : ~Before(e, d)
         IN <<d>> \o SortDates(S \ {d})

\* AnalyticsService.get_daily_breakdown: one row per createdAt date of the
\* fetched range, sorted by date.
get_daily_breakdown(coll, start, end) ==
    LET df == _load_dataframe(coll, start, end)
        dates == SortDates({df[i].createdAt : i \in 1..Len(df)})
    IN [k \in 1..Len(dates) |->
           LET g == SelectSeq(df, LAMBDA row : row.createdAt = dates[k])
               total == Len(g)
               cancelled == SumCancelled(g)
           IN [date |-> dates[k], total |-> total, cancelled |-> cancelled,
               completed |-> total - cancelled,
               cancellation_rate |->
                   IF total > 0 THEN RoundDiv(cancelled * 10000, total) ELSE 0]]

NoResp == [kind |-> "none"]

\* The 422 response of the framework's query validation: the handler is not
\* entered and nothing is fetched.
Unprocessable == [kind |-> "rejected", fetched |-> <<>>]

\* Query(ge=2000, le=2100) on year, Query(ge=1, le=12) on month.
ValidYear(year) == year >= 2000 /\ year <= 2100
ValidMonth(month) == month >= 1 /\ month <= 12

\* The query values the requests carry: years and months inside and outside
\* the validated bounds, and range boundaries in either order.
QueryYears == Years \cup {1999, 2101}
QueryMonths == 0..13
QueryDates == {datetime(2023, 12, 1), datetime(2024, 1, 1), datetime(2025, 1, 1)}

\* An appointment is created (the collection is written by another service,
\* between requests).
AddAppointment(doc) ==
    /\ resp = NoResp
    /\ Len(db) < MaxAppointments
    /\ db' = Append(db, doc)
    /\ UNCHANGED <<resp, mono, wall, version, cache, pc, call, result,
                   end_date, ret, recency, started, inserted>>
    /\ UNCHANGED <<insightsVars, metricsVars>>

\* GET /appointments/mom (main.py:105-112)
ComputeMom(year, month) ==
    /\ resp = NoResp
    /\ resp' = IF ValidYear(year) /\ ValidMonth(month)
               THEN compute_mom(db, year, month)
               ELSE Unprocessable
    /\ UNCHANGED <<db, mono, wall, version, cache, pc, call, result,
                   end_date, ret, recency, started, inserted>>
    /\ UNCHANGED <<insightsVars, metricsVars>>

\* GET /appointments/yoy (main.py:115-122); month = 0 stands for the month
\* parameter left out.
ComputeYoy(year, month) ==
    /\ resp = NoResp
    /\ resp' = IF ValidYear(year) /\ (month = 0 \/ ValidMonth(month))
               THEN compute_yoy(db, year, month)
               ELSE Unprocessable
    /\ UNCHANGED <<db, mono, wall, version, cache, pc, call, result,
                   end_date, ret, recency, started, inserted>>
    /\ UNCHANGED <<insightsVars, metricsVars>>

\* GET /appointments/daily (main.py:66-73): the two datetimes are parsed and
\* passed on as they are.
GetDailyBreakdown(start, end) ==
    /\ resp = NoResp
    /\ resp' = [kind |-> "daily", start_date |-> start, end_date |-> end,
                fetched |-> <<<<start, end>>>>,
                rows |-> get_daily_breakdown(db, start, end)]
    /\ UNCHANGED <<db, mono, wall, version, cache, pc, call, result,
                   end_date, ret, recency, started, inserted>>
    /\ UNCHANGED <<insightsVars, metricsVars>>

\* The response is sent; the next request may come.
Deliver ==
    /\ resp # NoResp
    /\ resp' = NoResp
    /\ UNCHANGED <<db, mono, wall, version, cache, pc, call, result,
                   end_date, ret, recency, started, inserted>>
    /\ UNCHANGED <<insightsVars, metricsVars>>

----------------------------------------------------------------------------
(* The insights calculator (services/insights.py).  A start timestamp is   *)
(* <<day, hour>>; createdAt and the instant of a request count months.      *)

\* customers in the customers collection
MaxCustomers == 3
\* documents in the agenda collection the insights read
MaxAgenda == 3

\* settings.insight_inactive_months (insights.py:28)
insight_inactive_months == 2

\* The customers, and the attendee of an appointment: a customer or someone
\* who is not in the customers collection.
CustomerIds == {"c1", "c2", "c3"}
AttendeeIds == {"c1", "c2", "zz"}

\* datetime.now(UTC) at the requests
Nows == {5, 6}

\* The appointment documents: created in month 3 with any attendee at one of
\* three start timestamps, two of them on the same day, or created in month 1.
AgendaDocuments ==
    {[attendee |-> a, start |-> s, createdAt |-> 3] :
        a \in AttendeeIds, s \in {<<1, 9>>, <<1, 15>>, <<2, 9>>}}
    \cup {[attendee |-> "c1", start |-> <<2, 9>>, createdAt |-> 1]}

\* a < b on start timestamps
TsBefore(a, b) == a[1] < b[1] \/ (a[1] = b[1] /\ a[2] < b[2])

\* A last_appointment cell: a timestamp or null.
Ts(s) == [isNull |-> FALSE, ts |-> s]
NoTs == [isNull |-> TRUE, ts |-> <<0, 0>>]

\* AgendaRepository.find_as_lazy: createdAt >= start_date and < end_date.
find_as_lazy(coll, start, end) ==
    SelectSeq(coll, LAMBDA apt : apt.createdAt >= start /\ apt.createdAt < end)

\* insights.py:34-37: per attendee id, the number of rows and the latest
\* start.
Freq(appointments_lf) ==
    [a \in {appointments_lf[i].attendee : i \in 1..Len(appointments_lf)} |->
        LET rows == SelectSeq(appointments_lf, LAMBDA apt : apt.attendee = a)
            last == CHOOSE s \in {rows[i].start : i \in 1..Len(rows)} :
                        \A i \in 1..Len(rows) : ~TsBefore(s, rows[i].start)
        IN [total_appointments |-> Len(rows), last_appointment |-> Ts(last)]]

\* The join as an inner join: customers without appointments drop out.
Joined_Inner(customers_lf, freq) ==
    LET matched == SelectSeq(customers_lf, LAMBDA c : c._id \in DOMAIN freq)
    IN [i \in 1..Len(matched) |->
           [_id |-> matched[i]._id,
            total_appointments |-> freq[matched[i]._id].total_appointments,
            last_appointment |-> freq[matched[i]._id].last_appointment]]

\* insights.py:40-43: customers left-joined with the frequencies; a customer
\* without a match gets total_appointments 0 (fill_null) and a null
\* last_appointment.
Joined(customers_lf, freq) ==
    [i \in 1..Len(customers_lf) |->
        LET id == customers_lf[i]._id
        IN IF id \in DOMAIN freq
           THEN [_id |-> id,
                 total_appointments |-> freq[id].total_appointments,
                 last_appointment |-> freq[id].last_appointment]
           ELSE [_id |-> id, total_appointments |-> 0,
                 last_appointment |-> NoTs]]

\* quantile(0.25, interpolation="nearest") of a column: the value at index
\* round((n - 1) * 0.25) of the sorted column.  Only used with n > 0.
Quantile25Nearest(col) ==
    LET n == Len(col)
        idx == ((n - 1) + 2) \div 4
    IN CHOOSE v \in {col[i] : i \in 1..n} :
           /\ Cardinality({i \in 1..n : col[i] < v}) <= idx
           /\ idx < Cardinality({i \in 1..n : col[i] <= v})

\* The order .sort("total_appointments", "last_appointment") sorts by:
\* ascending, nulls first.
SortKeyLeq(a, b) ==
    \/ a.total_appointments < b.total_appointments
    \/ /\ a.total_appointments = b.total_appointments
       /\ \/ a.last_appointment.isNull
          \/ /\ ~b.last_appointment.isNull
             /\ ~TsBefore(b.last_appointment.ts, a.last_appointment.ts)

\* The orders sort may leave the rows in: it does not keep the order of rows
\* with equal keys.
SortOrders(rows) ==
    IF rows = <<>> THEN {<<>>}
    ELSE {[k \in 1..Len(rows) |-> rows[p[k]]] :
            p \in {q \in Permutations(1..Len(rows)) :
                     \A j \in 1..Len(rows) : \A k \in 1..Len(rows) :
                        j < k => SortKeyLeq(rows[q[j]], rows[q[k]])}}

\* strftime("%Y-%m-%d") of a last_appointment cell, None for null
FormatDate(cell) == IF cell.isNull THEN Null ELSE Num(cell.ts[1])

Min(a, b) == IF a < b THEN a ELSE b


\* insights.py:46-49 and 52-53: the rows at or below the threshold.
Threshold(joined) ==
    Quantile25Nearest([i \in 1..Len(joined) |-> joined[i].total_appointments])

InactiveRows(joined) ==
    SelectSeq(joined, LAMBDA row : row.total_appointments <= Threshold(joined))

\* insights.py:55-83: the first `limit` rows of the sorted frame become the
\* items of the response.
InactiveCustomersResponse(joined, sorted, limit, start, end) ==
    LET head == SubSeq(sorted, 1, Min(limit, Len(sorted)))
        items == [k \in 1..Len(head) |->
                     [id |-> head[k]._id,
                      total_appointments |-> head[k].total_appointments,
                      last_appointment |-> FormatDate(head[k].last_appointment)]]
    IN [kind |-> "inactive", limit |-> limit,
        period |-> [start |-> start, end |-> end],
        threshold |-> Threshold(joined),
        total_customers |-> Len(joined),
        inactive_count |-> Len(items),
        customers |-> items]

NoInsight == [kind |-> "none"]

\* int(None): the quantile of a frame without rows is null (insights.py:49).
InsightTypeError == [kind |-> "error", error |-> "TypeError"]

\* Query(ge=1) on limit (routers/insights.py:21)
Limits == {1, 2}

\* A customer is registered (the collection is written by another service).
AddCustomer(id) ==
    /\ insight = NoInsight
    /\ Len(customers) < MaxCustomers
    /\ \A i \in 1..Len(customers) : customers[i]._id # id
    /\ customers' = Append(customers, [_id |-> id])
    /\ UNCHANGED <<agenda, insight>>
    /\ UNCHANGED <<cacheVars, analyticsVars, metricsVars>>

\* An appointment is booked.
AddAgenda(doc) ==
    /\ insight = NoInsight
    /\ Len(agenda) < MaxAgenda
    /\ agenda' = Append(agenda, doc)
    /\ UNCHANGED <<customers, insight>>
    /\ UNCHANGED <<cacheVars, analyticsVars, metricsVars>>

\* GET /insights/inactive-customers: InsightsService.get_inactive_customers
\* (insights.py:25-83) at the instant `now`.
GetInactiveCustomers(limit, now) ==
    /\ insight = NoInsight
    /\ LET end == now
           start == end - insight_inactive_months
           customers_lf == customers
           appointments_lf == find_as_lazy(agenda, start, end)
           joined == Joined(customers_lf, Freq(appointments_lf))
       IN IF joined = <<>>
          THEN insight' = InsightTypeError
          ELSE \E sorted \in SortOrders(InactiveRows(joined)) :
                   insight' = InactiveCustomersResponse(joined, sorted, limit,
                                                        start, end)
    /\ UNCHANGED <<customers, agenda>>
    /\ UNCHANGED <<cacheVars, analyticsVars, metricsVars>>

\* The response is sent; the next request may come.
DeliverInsight ==
    /\ insight # NoInsight
    /\ insight' = NoInsight
    /\ UNCHANGED <<customers, agenda>>
    /\ UNCHANGED <<cacheVars, analyticsVars, metricsVars>>

NoComputed == [kind |-> "none"]

----------------------------------------------------------------------------
(* The metric registry (metrics/) with the dependency resolver and the     *)
(* scalar mode of the aggregation engine.  A float is kept in hundredths.   *)

\* rows in the batch the metrics are computed over
MaxBatch == 2
\* metric keys in one request
MaxRequested == 2

\* A metric value: an integer, a float, or what a float division by zero
\* leaves.
IntValue(n) == [type |-> "int", v |-> n]
FloatValue(h) == [type |-> "float", v |-> h]
NaN == [type |-> "nan", v |-> 0]
Inf == [type |-> "inf", v |-> 0]

\* The rows of a batch: the cancellation fields and the data.services list.
ServiceLists == {<<>>, <<"s1">>, <<"s1", "s2">>}
Rows ==
    {[isCancelled |-> c.isCancelled, cancelReason |-> c.cancelReason,
      services |-> s] : c \in Cancellations, s \in ServiceLists}

\* base.py:10-12
_is_customer_cancel(row) ==
    row.isCancelled = TRUE /\ row.cancelReason = "CUSTOMER_CANCEL"

RECURSIVE SumLens(_)
SumLens(lf) ==
    IF lf = <<>> THEN 0 ELSE Len(Head(lf).services) + SumLens(Tail(lf))

\* base.py:14-22: the atomic aggregations over a frame; the sum of no rows
\* is 0.
ATOMICS(name, lf) ==
    CASE name = "_total" -> Len(lf)
      [] name = "_cancelled" ->
            Cardinality({i \in 1..Len(lf) : _is_customer_cancel(lf[i])})
      [] name = "_services_total" -> SumLens(lf)

\* The metric definitions (MetricDef, base.py:25-37): derive_expr and
\* timeseries_agg say whether the expression is given, scalar_compute names
\* the function or is "None".
APPOINTMENTS_COUNT ==
    [key |-> "appointments.count", requires |-> <<"_total">>,
     derive_expr |-> TRUE, timeseries_agg |-> FALSE, scalar_compute |-> "None"]

APPOINTMENTS_CANCELLED ==
    [key |-> "appointments.cancelled", requires |-> <<"_cancelled">>,
     derive_expr |-> TRUE, timeseries_agg |-> FALSE, scalar_compute |-> "None"]

APPOINTMENTS_COMPLETED ==
    [key |-> "appointments.completed", requires |-> <<"_total", "_cancelled">>,
     derive_expr |-> TRUE, timeseries_agg |-> FALSE, scalar_compute |-> "None"]

APPOINTMENTS_CANCELLATION_RATE ==
    [key |-> "appointments.cancellation_rate",
     requires |-> <<"_total", "_cancelled">>,
     derive_expr |-> TRUE, timeseries_agg |-> FALSE, scalar_compute |-> "None"]

\* SERVICES_UNIQUE_COUNT declared with the atomic its name suggests.
SERVICES_UNIQUE_COUNT_Requires ==
    [key |-> "services.unique_count", requires |-> <<"_services_total">>,
     derive_expr |-> FALSE, timeseries_agg |-> TRUE,
     scalar_compute |-> "_services_unique_count_scalar"]

SERVICES_UNIQUE_COUNT ==
    [key |-> "services.unique_count", requires |-> <<>>,
     derive_expr |-> FALSE, timeseries_agg |-> TRUE,
     scalar_compute |-> "_services_unique_count_scalar"]

SERVICES_AVG_PER_APPOINTMENT ==
    [key |-> "services.avg_per_appointment",
     requires |-> <<"_services_total", "_total">>,
     derive_expr |-> TRUE, timeseries_agg |-> FALSE, scalar_compute |-> "None"]

MetricDefs ==
    {APPOINTMENTS_COUNT, APPOINTMENTS_CANCELLED, APPOINTMENTS_COMPLETED,
     APPOINTMENTS_CANCELLATION_RATE, SERVICES_UNIQUE_COUNT,
     SERVICES_AVG_PER_APPOINTMENT}

MetricKeys == {m.key : m \in MetricDefs}

\* METRIC_REGISTRY = {m.key: m for m in [...]}
METRIC_REGISTRY == [k \in MetricKeys |-> CHOOSE m \in MetricDefs : m.key = k]

\* Float division of two integers, the quotient rounded to `scale` parts of a
\* unit; a zero divisor gives NaN or infinity.
FloatDiv(n, d, scale) ==
    IF d = 0 THEN (IF n = 0 THEN NaN ELSE Inf)
    ELSE FloatValue(RoundDiv(n * scale, d))

\* The derivations with the cancellation rate's guard left out.
derive_expr_Unguarded(key, a) ==
    CASE key = "appointments.count" -> IntValue(a["_total"])
      [] key = "appointments.cancelled" -> IntValue(a["_cancelled"])
      [] key = "appointments.completed" ->
            IntValue(a["_total"] - a["_cancelled"])
      [] key = "appointments.cancellation_rate" ->
            FloatDiv(a["_cancelled"] * 100, a["_total"], 100)
      [] key = "services.avg_per_appointment" ->
            IF a["_total"] > 0
            THEN FloatDiv(a["_services_total"], a["_total"], 100)
            ELSE FloatValue(0)

\* The derive_expr of each standard metric over the row of atomic values
\* (appointments.py:9-37, services.py:33-41).
derive_expr(key, a) ==
    CASE key = "appointments.count" -> IntValue(a["_total"])
      [] key = "appointments.cancelled" -> IntValue(a["_cancelled"])
      [] key = "appointments.completed" ->
            IntValue(a["_total"] - a["_cancelled"])
      [] key = "appointments.cancellation_rate" ->
            IF a["_total"] > 0
            THEN FloatDiv(a["_cancelled"] * 100, a["_total"], 100)
            ELSE FloatValue(0)
      [] key = "services.avg_per_appointment" ->
            IF a["_total"] > 0
            THEN FloatDiv(a["_services_total"], a["_total"], 100)
            ELSE FloatValue(0)

\* services.py:10-17: the number of distinct services of the exploded
\* data.services column.
_services_unique_count_scalar(lf) ==
    IntValue(Cardinality(UNION {{lf[i].services[j] : j \in 1..Len(lf[i].services)} :
                                    i \in 1..Len(lf)}))


Range(s) == {s[i] : i \in 1..Len(s)}

\* The dependency resolver: the atomics the requested metrics require,
\* gathered metric by metric, and the requested metrics that carry their own
\* time-series aggregation.
RECURSIVE ResolveAtomics(_, _)
ResolveAtomics(requested, acc) ==
    IF requested = <<>> THEN acc
    ELSE ResolveAtomics(Tail(requested),
                        acc \cup Range(METRIC_REGISTRY[Head(requested)].requires))

resolve(requested) ==
    [kind |-> "resolved", requested |-> requested,
     atomics |-> ResolveAtomics(requested, {}),
     timeseries |-> {m \in Range(requested) : METRIC_REGISTRY[m].timeseries_agg}]

\* The scalar mode of the aggregation engine: a custom metric's
\* scalar_compute is called on the raw frame; a standard metric's atomics
\* are computed over the frame and its derivation applied to them.
compute_scalar(metric, lf) ==
    LET def == METRIC_REGISTRY[metric]
    IN [kind |-> "scalar", metric |-> metric,
        value |-> IF def.scalar_compute # "None"
                  THEN _services_unique_count_scalar(lf)
                  ELSE derive_expr(metric, [n \in Range(def.requires) |->
                                               ATOMICS(n, lf)])]

\* The lists of metric keys a request may carry, duplicates included.
RequestLists == UNION {[1..n -> MetricKeys] : n \in 0..MaxRequested}

\* A row joins the batch (the rows fetched for the requested range).
AddRow(row) ==
    /\ computed = NoComputed
    /\ Len(batch) < MaxBatch
    /\ batch' = Append(batch, row)
    /\ UNCHANGED computed
    /\ UNCHANGED <<cacheVars, analyticsVars, insightsVars>>

\* The metrics of a time-series request are resolved.
ResolveMetrics(requested) ==
    /\ computed = NoComputed
    /\ computed' = resolve(requested)
    /\ UNCHANGED batch
    /\ UNCHANGED <<cacheVars, analyticsVars, insightsVars>>

\* The scalar value of one metric is computed over the batch.
ComputeScalar(metric) ==
    /\ computed = NoComputed
    /\ computed' = compute_scalar(metric, batch)
    /\ UNCHANGED batch
    /\ UNCHANGED <<cacheVars, analyticsVars, insightsVars>>

\* The outcome is handed back; the next request may come.
DeliverComputed ==
    /\ computed # NoComputed
    /\ computed' = NoComputed
    /\ UNCHANGED batch
    /\ UNCHANGED <<cacheVars, analyticsVars, insightsVars>>

InitAnalytics ==
    /\ db = <<>>
    /\ resp = NoResp

InitInsights ==
    /\ customers = <<>>
    /\ agenda = <<>>
    /\ insight = NoInsight

InitMetrics ==
    /\ batch = <<>>
    /\ computed = NoComputed

Init == InitCache /\ InitAnalytics /\ InitInsights /\ InitMetrics

Next ==
    \/ \E t \in Tasks : \E c \in CallSet : Call(t, c)
    \/ \E t \in Tasks : Return(t)
    \/ \E t \in Tasks : Fail(t)
    \/ \E t \in Tasks : Insert(t)
    \/ Tick
    \/ DataChange

Spec == Init /\ [][Next]_vars

NextAnalytics ==
    \/ \E doc \in Documents : AddAppointment(doc)
    \/ \E year \in QueryYears : \E month \in QueryMonths :
          ComputeMom(year, month)
    \/ \E year \in QueryYears : \E month \in {0} \cup (QueryMonths \ {0}) :
          ComputeYoy(year, month)
    \/ \E start \in QueryDates : \E end \in QueryDates :
          GetDailyBreakdown(start, end)
    \/ Deliver

SpecAnalytics == Init /\ [][NextAnalytics]_vars


NextInsights ==
    \/ \E id \in CustomerIds : AddCustomer(id)
    \/ \E doc \in AgendaDocuments : AddAgenda(doc)
    \/ \E limit \in Limits : \E now \in Nows : GetInactiveCustomers(limit, now)
    \/ DeliverInsight

SpecInsights == Init /\ [][NextInsights]_vars

NextMetrics ==
    \/ \E row \in Rows : AddRow(row)
    \/ \E requested \in RequestLists : ResolveMetrics(requested)
    \/ \E metric \in MetricKeys : ComputeScalar(metric)
    \/ DeliverComputed

SpecMetrics == Init /\ [][NextMetrics]_vars

----------------------------------------------------------------------------
(* Properties of the cache (specification Spec).                           *)

\* The end_date argument a call passes, by keyword or as second positional.
PassedEndDate(c) ==
    CHOOSE v \in {c.kwargs[j][2] : j \in {j \in 1..Len(c.kwargs) :
                                            c.kwargs[j][1] = "end_date"}}
                 \cup {c.args[i] : i \in {i \in 1..Len(c.args) : i = 2}} : TRUE

\* A live entry is stored under the key: stored and not yet expired.
Live(key) == \E i \in 1..Len(cache) : cache[i].key = key /\ mono < cache[i].expires

LiveValue(key) ==
    (CHOOSE i \in 1..Len(cache) : cache[i].key = key /\ mono < cache[i].expires)

StoredUnder(c, key) == {i \in 1..Len(c) : c[i].key = key}

\* C1: every entry the wrapper inserts for a call that passes end_date gets
\* time-to-use insertion time + cache_ttl_closed when end_date is strictly
\* before the wall clock at insertion, insertion time + cache_ttl_open when it
\* is at or after it.
C1_TtlSelection ==
    [][\A t \in Tasks :
         (Insert(t) /\ HasEndDateArg(call[t])) =>
             /\ Key(call[t]) \in KeysOf(cache')
             /\ ItemOf(cache', Key(call[t])).expires =
                    mono + (IF PassedEndDate(call[t]).v < wall
                            THEN cache_ttl_closed ELSE cache_ttl_open)]_vars

\* Two entries inserted at the present instant, one for a closed period with
\* the closed TTL and one for an open period with the open TTL.
C1_Witness ==
    /\ pc[1] = "stored" /\ pc[2] = "stored"
    /\ HasEndDateArg(call[1]) /\ HasEndDateArg(call[2])
    /\ PassedEndDate(call[1]).v < wall
    /\ PassedEndDate(call[2]).v >= wall
    /\ Key(call[1]) \in KeysOf(cache) /\ Key(call[2]) \in KeysOf(cache)
    /\ ItemOf(cache, Key(call[1])).expires = mono + cache_ttl_closed
    /\ ItemOf(cache, Key(call[2])).expires = mono + cache_ttl_open

\* An insert of a new key into a full cache none of whose entries has expired
\* evicts exactly the stored key accessed (hit or inserted) longest ago.
EvictsLeastRecent ==
    \A t \in Tasks :
        (/\ Insert(t)
         /\ Key(call[t]) \notin KeysOf(cache)
         /\ Len(cache) = cache_maxsize
         /\ \A i \in 1..Len(cache) : mono < cache[i].expires)
        => /\ KeysOf(cache) \ KeysOf(cache') = {recency[1]}
           /\ KeysOf(cache') \ KeysOf(cache) = {Key(call[t])}

\* C2: the cache never holds more than cache_maxsize entries, and a new key
\* inserted into a full cache with no expired entry evicts the entry whose
\* last access (lookup hit or insert) is the oldest.
C2_Capacity ==
    /\ [](Len(cache) <= cache_maxsize)
    /\ [](Cardinality(KeysOf(cache)) = Len(cache))
    /\ [][EvictsLeastRecent]_vars

\* Before any entry could expire, a key a task inserted is gone from the full
\* cache: it was evicted by a later insert.
C2_Witness ==
    /\ mono = 0
    /\ Len(cache) = cache_maxsize
    /\ \E t \in Tasks, u \in Tasks :
          /\ pc[t] = "stored" /\ pc[u] = "stored"
          /\ Key(call[t]) \in KeysOf(cache)
          /\ Key(call[u]) \notin KeysOf(cache)

\* C3: a call whose key has a live entry returns that entry's value without
\* entering the wrapped computation; a call that misses enters it, once: a
\* task inside the computation leaves it only by its return or its failure.
C3_HitSkipsComputation ==
    [][\A t \in Tasks :
         /\ \A c \in CallSet :
              Call(t, c) =>
                  /\ Live(Key(c)) =>
                        /\ pc'[t] = "hit"
                        /\ ret'[t] = cache[LiveValue(Key(c))].value
                  /\ (Hashable(Key(c)) /\ ~Live(Key(c))) => pc'[t] = "awaiting"
         /\ (pc[t] = "awaiting" /\ pc'[t] # "awaiting")
                => (pc'[t] \in {"bound", "failed"} /\ call'[t] = call[t])
         /\ (pc[t] # "awaiting" /\ pc'[t] = "awaiting")
                => \E c \in CallSet : Call(t, c)]_vars

\* A task was served a live entry while the other task had computed its own.
C3_Witness ==
    \E t \in Tasks, u \in Tasks :
        /\ pc[t] = "hit" /\ pc[u] = "stored"
        /\ Live(Key(call[t]))
        /\ ret[t] = cache[LiveValue(Key(call[t]))].value

\* C4: an entry's expiry instant is fixed when it is inserted and no lookup
\* changes it; a lookup at or after it is a miss that enters the computation;
\* the insert that follows replaces the entry by one fresh entry (the new
\* result, the new end date, a time-to-use counted from the insert).
C4_ExpiryFixed ==
    [][\A t \in Tasks :
         /\ \A k \in KeysOf(cache) \cap KeysOf(cache') :
              ItemOf(cache', k).expires # ItemOf(cache, k).expires
                  => \E u \in Tasks : Insert(u) /\ Key(call[u]) = k
         /\ \A c \in CallSet :
              Call(t, c) =>
                  /\ KeysOf(cache') = KeysOf(cache)
                  /\ (/\ Key(c) \in KeysOf(cache)
                      /\ mono >= ItemOf(cache, Key(c)).expires)
                         => pc'[t] = "awaiting"
         /\ Insert(t) =>
              /\ Cardinality(StoredUnder(cache', Key(call[t]))) = 1
              /\ ItemOf(cache', Key(call[t])).value = result[t]
              /\ ItemOf(cache', Key(call[t])).end_date = end_date[t]
              /\ ItemOf(cache', Key(call[t])).expires
                     \in {mono + cache_ttl_closed, mono + cache_ttl_open}]_vars

\* A task looked up an entry at its expiry instant, missed, computed a
\* different result and is about to store it over the stale entry.
C4_Witness ==
    \E t \in Tasks :
        /\ pc[t] = "bound"
        /\ Key(call[t]) \in KeysOf(cache)
        /\ ItemOf(cache, Key(call[t])).expires = mono
        /\ ItemOf(cache, Key(call[t])).value # result[t]

\* C5: a call of a method with no end_date parameter is stored with the open
\* TTL, never the closed one.
C5_AbsentEndDateIsOpen ==
    [][\A t \in Tasks :
         (Insert(t) /\ ~HasEndDateArg(call[t])) =>
             /\ Key(call[t]) \in KeysOf(cache')
             /\ ItemOf(cache', Key(call[t])).expires = mono + cache_ttl_open]_vars

\* C6: a call whose key cannot be hashed fails at once: the TypeError leaves
\* the wrapper, the computation is not entered and the cache is unchanged.
C6_UnhashablePropagates ==
    [][\A t \in Tasks : \A c \in CallSet :
         (Call(t, c) /\ ~Hashable(Key(c))) =>
             /\ pc'[t] = "TypeError"
             /\ ret'[t] = None
             /\ cache' = cache
             /\ recency' = recency]_vars

\* A call with a list argument has raised while the cache holds entries.
C6_Witness ==
    \E t \in Tasks :
        /\ pc[t] = "TypeError"
        /\ ~Hashable(Key(call[t]))
        /\ cache # <<>>

\* C7: a call that misses enters the computation also while another task is
\* inside it for the same key, and every insert leaves exactly one entry under
\* its key, holding the inserting call's result: the later insert wins.
C7_NoSingleFlight ==
    [][\A t \in Tasks :
         /\ \A c \in CallSet :
              (/\ Call(t, c)
               /\ ~Live(Key(c))
               /\ \E u \in Tasks \ {t} :
                     pc[u] = "awaiting" /\ Key(call[u]) = Key(c))
              => pc'[t] = "awaiting"
         /\ Insert(t) =>
              /\ Cardinality(StoredUnder(cache', Key(call[t]))) = 1
              /\ ItemOf(cache', Key(call[t])).value = result[t]]_vars

\* Before any entry could expire both tasks have computed and stored the same
\* key, with different results; the entry holds the later one.
C7_Witness ==
    /\ mono = 0
    /\ pc[1] = "stored" /\ pc[2] = "stored"
    /\ Key(call[1]) = Key(call[2])
    /\ ret[1].ver < ret[2].ver
    /\ Cardinality(StoredUnder(cache, Key(call[1]))) = 1
    /\ ItemOf(cache, Key(call[1])).value = ret[2]

----------------------------------------------------------------------------
(* Properties of the comparison calculator (specification SpecAnalytics).  *)

Compared == resp.kind \in {"mom", "yoy"}

Abs(x) == IF x < 0 THEN 0 - x ELSE x

\* x is n / d rounded to the nearest integer, ties to even (d > 0)
IsRounded(x, n, d) ==
    /\ 2 * Abs(x * d - n) <= d
    /\ 2 * Abs(x * d - n) = d => x % 2 = 0

\* The documents of the current period of the response.
CurrentDocs ==
    IF resp.kind = "mom"
    THEN SelectSeq(db, LAMBDA doc : /\ doc.createdAt[1] = resp.year
                                    /\ doc.createdAt[2] = resp.month)
    ELSE find_by_created_at_range(db, resp.fetched[1][1], resp.fetched[1][2])

CustomerCancelled(docs) ==
    Cardinality({i \in 1..Len(docs) :
                    /\ docs[i].isCancelled
                    /\ docs[i].cancelReason = "CUSTOMER_CANCEL"})

\* C8: count_change_percent is null when the previous total is 0 and
\* round((current - previous) / previous * 100, 2) otherwise.
C8_PercentChange ==
    Compared =>
        IF resp.previous.total_count = 0
        THEN resp.count_change_percent = Null
        ELSE /\ ~resp.count_change_percent.isNull
             /\ IsRounded(resp.count_change_percent.v,
                          (resp.current.total_count - resp.previous.total_count)
                              * 10000,
                          resp.previous.total_count)

\* C9: cancelled_count is the number of the period's records whose
\* cancellation flag is true and whose reason is the customer-initiated code.
C9_CustomerCancellationsOnly ==
    Compared => resp.current.cancelled_count = CustomerCancelled(CurrentDocs)

SummaryInvariant(s) ==
    /\ s.completed_count = s.total_count - s.cancelled_count
    /\ IF s.total_count > 0
       THEN IsRounded(s.cancellation_rate, s.cancelled_count * 10000,
                      s.total_count)
       ELSE s.cancellation_rate = 0

\* C10: every summary, the empty batch's included, has completed_count =
\* total_count - cancelled_count and cancellation_rate = cancelled / total *
\* 100 rounded to 2 decimals when total > 0, 0.0 when total = 0.
C10_SummaryInvariant ==
    Compared => SummaryInvariant(resp.current) /\ SummaryInvariant(resp.previous)

\* A comparison of a period with 2 cancelled records of 3 (66.67) against an
\* empty period.
C10_Witness ==
    /\ Compared
    /\ resp.current.total_count = 3
    /\ resp.current.cancelled_count = 2
    /\ resp.current.cancellation_rate = 6667
    /\ resp.previous.total_count = 0
    /\ resp.previous.cancellation_rate = 0

\* Calendar arithmetic on months: month number i counts the months since
\* year 0, and FirstOf(i) is the first day of month i.
MonthIndex(y, m) == y * 12 + (m - 1)
FirstOf(i) == datetime(i \div 12, (i % 12) + 1, 1)

\* The documents created in [start, end) and how many of them are cancelled.
CreatedIn(start, end) ==
    SelectSeq(db, LAMBDA doc : ~Before(doc.createdAt, start)
                               /\ Before(doc.createdAt, end))
Flagged(docs) == Cardinality({i \in 1..Len(docs) : docs[i].isCancelled})

\* A summary counts exactly the documents created in [start, end) and is
\* labelled with the month starting at `start`.
SummaryOfMonth(s, i) ==
    /\ s.period = MonthLabel(FirstOf(i)[1], FirstOf(i)[2])
    /\ s.total_count = Len(CreatedIn(FirstOf(i), FirstOf(i + 1)))
    /\ s.cancelled_count = Flagged(CreatedIn(FirstOf(i), FirstOf(i + 1)))

\* C11: a month-over-month result for (year, month) summarises the documents
\* of [first day of the month, first day of the next month) as the current
\* period and those of the calendar month just before it as the previous
\* period, December of year - 1 for January and November for December, and
\* labels the two summaries with these two months; the window fetched runs
\* from the start of the previous month to the end of the current one.
C11_MomRanges ==
    resp.kind = "mom" =>
        LET i == MonthIndex(resp.year, resp.month)
        IN /\ SummaryOfMonth(resp.current, i)
           /\ SummaryOfMonth(resp.previous, i - 1)
           /\ resp.fetched = <<<<FirstOf(i - 1), FirstOf(i + 1)>>>>

\* January 2024 compared with December 2023: two documents of December and
\* one of January, the labels rolling the year.
C11_Witness ==
    /\ resp.kind = "mom"
    /\ resp.year = 2024 /\ resp.month = 1
    /\ resp.current.period = "2024-01" /\ resp.current.total_count = 1
    /\ resp.previous.period = "2023-12" /\ resp.previous.total_count = 2

\* A summary counts exactly the documents created in [start, end).
SummaryOfRange(s, start, end) ==
    /\ s.total_count = Len(CreatedIn(start, end))
    /\ s.cancelled_count = Flagged(CreatedIn(start, end))

\* C12: a year-over-year result for (year, month) compares the documents of
\* [first of the month, first of the next month) with those of the same month
\* twelve months earlier, the end of a December range being January 1 of the
\* following year in both; with the month omitted it compares
\* [Jan 1 year, Jan 1 year + 1) with [Jan 1 year - 1, Jan 1 year).  Two
\* fetches are made, one per range.
C12_YoyRanges ==
    resp.kind = "yoy" =>
        LET i == MonthIndex(resp.year, IF resp.month = 0 THEN 1 ELSE resp.month)
            n == IF resp.month = 0 THEN 12 ELSE 1
        IN /\ SummaryOfRange(resp.current, FirstOf(i), FirstOf(i + n))
           /\ SummaryOfRange(resp.previous, FirstOf(i - 12), FirstOf(i - 12 + n))
           /\ resp.fetched = << <<FirstOf(i), FirstOf(i + n)>>,
                                <<FirstOf(i - 12), FirstOf(i - 12 + n)>> >>

\* December 2024 compared with December 2023 while the collection also holds
\* a document of January 1 2025: one document in each period.
C12_Witness ==
    /\ resp.kind = "yoy"
    /\ resp.year = 2024 /\ resp.month = 12
    /\ resp.current.total_count = 1
    /\ resp.previous.total_count = 1
    /\ \E j \in 1..Len(db) : db[j].createdAt = datetime(2025, 1, 1)

\* C13: a range request whose end is not strictly after its start, and a
\* month or year request outside the validated bounds, is rejected without a
\* fetch.
C13_InvalidRangeRejected ==
    [][/\ \A year \in QueryYears : \A month \in QueryMonths :
            /\ (ComputeMom(year, month) /\ ~(ValidYear(year) /\ ValidMonth(month)))
                   => resp' = Unprocessable
            /\ (ComputeYoy(year, month)
                    /\ ~(ValidYear(year) /\ (month = 0 \/ ValidMonth(month))))
                   => resp' = Unprocessable
       /\ \A start \in QueryDates : \A end \in QueryDates :
            (GetDailyBreakdown(start, end) /\ ~Before(start, end))
                => (resp'.kind = "rejected" /\ resp'.fetched = <<>>)]_vars

\* C18: in every month-over-month and year-over-year result count_change is
\* the current total minus the previous total, negative when the count fell,
\* and cancellation_rate_change is the current rate minus the previous rate,
\* a difference of rates and not a percentage of the previous rate; the same
\* when the previous period is empty.
C18_ChangeMetrics ==
    Compared =>
        /\ resp.count_change
               = resp.current.total_count - resp.previous.total_count
        /\ resp.cancellation_rate_change
               = resp.current.cancellation_rate - resp.previous.cancellation_rate

\* The count fell from 2 to 1 while the rate rose from 50.0 to 100.0.
C18_Witness ==
    /\ Compared
    /\ resp.previous.total_count = 2 /\ resp.previous.cancellation_rate = 5000
    /\ resp.current.total_count = 1 /\ resp.current.cancellation_rate = 10000
    /\ resp.count_change = 0 - 1
    /\ resp.cancellation_rate_change = 5000

\* C20: the batch compute_mom fetches for [previous start, current end) is
\* split so that every record lands in exactly one of the two sets, and the
\* result is the one two separate range queries over [current start, current
\* end) and [previous start, current start) give: the same two summaries and
\* the same changes.
C20_SingleWindowSplit ==
    resp.kind = "mom" =>
        LET current_start == FirstOf(MonthIndex(resp.year, resp.month))
            window == _load_dataframe(db, resp.fetched[1][1], resp.fetched[1][2])
            cur == _summarize(_load_dataframe(db, current_start,
                                              resp.fetched[1][2]),
                              resp.current.period)
            prev == _summarize(_load_dataframe(db, resp.fetched[1][1],
                                               current_start),
                               resp.previous.period)
        IN /\ resp.current.total_count + resp.previous.total_count = Len(window)
           /\ resp.current = cur
           /\ resp.previous = prev
           /\ resp.count_change = cur.total_count - prev.total_count
           /\ resp.count_change_percent = Changes(cur, prev).count_pct
           /\ resp.cancellation_rate_change
                  = cur.cancellation_rate - prev.cancellation_rate

\* December against November with a document in each and a third document
\* outside the fetched window.
C20_Witness ==
    /\ resp.kind = "mom"
    /\ resp.month = 12
    /\ resp.current.total_count = 1
    /\ resp.previous.total_count = 1
    /\ Len(db) = 3

----------------------------------------------------------------------------
(* Properties of the insights calculator (specification SpecInsights).     *)

\* The appointments of a customer created in the window of the response.
InWindow(id) ==
    {i \in 1..Len(agenda) :
        /\ agenda[i].attendee = id
        /\ agenda[i].createdAt >= insight.period.start
        /\ agenda[i].createdAt < insight.period.end}

CountOf(id) == Cardinality(InWindow(id))

\* The latest start among them (the customer has some).
LastStart(id) ==
    CHOOSE s \in {agenda[i].start : i \in InWindow(id)} :
        \A i \in InWindow(id) : ~TsBefore(s, agenda[i].start)

\* (count, last appointment) of a is at or before that of b, absent first.
RankLeq(a, b) ==
    \/ CountOf(a) < CountOf(b)
    \/ /\ CountOf(a) = CountOf(b)
       /\ (CountOf(a) = 0 \/ ~TsBefore(LastStart(b), LastStart(a)))

\* The customers at or below the threshold of the response.
Candidates ==
    {customers[i]._id : i \in {i \in 1..Len(customers) :
                                 CountOf(customers[i]._id) <= insight.threshold}}

\* The response lists the first `limit` of the candidates in ascending
\* (count, last appointment) order.
RankedAndLimited ==
    LET items == insight.customers
        returned == {items[k].id : k \in 1..Len(items)}
    IN /\ Len(items) = Min(insight.limit, Cardinality(Candidates))
       /\ insight.inactive_count = Len(items)
       /\ \A k \in 1..Len(items) :
             /\ items[k].id \in Candidates
             /\ items[k].total_appointments = CountOf(items[k].id)
             /\ items[k].total_appointments <= insight.threshold
             /\ items[k].last_appointment
                    = IF CountOf(items[k].id) = 0 THEN Null
                      ELSE Num(LastStart(items[k].id)[1])
       /\ \A j \in 1..Len(items) : \A k \in 1..Len(items) :
             j < k => /\ items[j].id # items[k].id
                      /\ RankLeq(items[j].id, items[k].id)
       /\ \A c \in Candidates \ returned : \A k \in 1..Len(items) :
             RankLeq(items[k].id, c)

\* C14: for every customer set, appointment batch and limit, the request
\* returns the first `limit` customers of the at-or-below-threshold customers
\* sorted ascending by (total_appointments, last_appointment, absent first):
\* at most `limit` items, each at or below the threshold, and inactive_count
\* the length of the list.
C14_InactiveRanking ==
    insight # NoInsight => (insight.kind = "inactive" /\ RankedAndLimited)

\* The customers without an appointment in the window of the response.
ZeroCustomers ==
    {customers[i]._id : i \in {i \in 1..Len(customers) :
                                 CountOf(customers[i]._id) = 0}}

----------------------------------------------------------------------------
(* Properties of the metric registry, the resolver and the scalar mode     *)
(* (specification SpecMetrics).                                            *)

\* The standard metrics: those with a derivation over atomics.
Standard(m) == METRIC_REGISTRY[m].derive_expr

\* C16: the atomics resolved for a list of requested metrics are the union
\* of the requires lists of the metrics in it, to which a custom metric adds
\* nothing, and the same set is resolved for every permutation and every
\* duplication of the list.
C16_DependencyResolution ==
    computed.kind = "resolved" =>
        /\ computed.atomics
               = UNION {Range(METRIC_REGISTRY[m].requires) :
                            m \in Range(computed.requested)}
        /\ computed.atomics
               = UNION {Range(METRIC_REGISTRY[m].requires) :
                            m \in {k \in Range(computed.requested) : Standard(k)}}
        /\ \A other \in RequestLists :
               Range(other) = Range(computed.requested)
                   => resolve(other).atomics = computed.atomics

\* A request that names the custom metric before a standard one resolves to
\* the two atomics of the standard one.
C16_Witness ==
    /\ computed.kind = "resolved"
    /\ computed.requested = <<"services.unique_count", "appointments.completed">>
    /\ computed.atomics = {"_total", "_cancelled"}

\* C17: over the empty batch the scalar value of every metric of the
\* registry is the number zero: an integer or a float, neither null nor NaN.
C17_EmptyBatchIsZero ==
    (computed.kind = "scalar" /\ batch = <<>>) =>
        /\ computed.value.type \in {"int", "float"}
        /\ computed.value.v = 0

\* The cancellation rate over the empty batch is 0.0.
C17_Witness ==
    /\ computed.kind = "scalar"
    /\ batch = <<>>
    /\ computed.metric = "appointments.cancellation_rate"
    /\ computed.value = FloatValue(0)

----------------------------------------------------------------------------
(* Further properties of the cache (specification Spec).                   *)

ComputedFor(key) ==
    {FnResult(c, v) : c \in {c \in CallSet : Key(c) = key}, v \in 0..MaxVersion}

\* C21: the value a cache hit for key k returns is the value of the most
\* recent insert for k, which a completed invocation of the wrapped
\* computation for a call of key k returned; it is a value of no other key.
\* Every insert stores what the inserting call's own invocation returned.
C21_HitProvenance ==
    [][\A t \in Tasks :
         /\ \A c \in CallSet :
              (Call(t, c) /\ pc'[t] = "hit") =>
                  /\ ret'[t] = inserted[Key(c)]
                  /\ ret'[t] # None
                  /\ ret'[t] \in ComputedFor(Key(c))
                  /\ \A k \in HashableKeys \ {Key(c)} :
                         ret'[t] \notin ComputedFor(k)
         /\ Insert(t) =>
              /\ result[t] \in {FnResult(call[t], v) : v \in 0..version}
              /\ inserted'[Key(call[t])] = result[t]
              /\ \A k \in HashableKeys \ {Key(call[t])} :
                     inserted'[k] = inserted[k]]_vars

\* With two keys stored, a task is served the value of the second insert for
\* its key: the other task had stored an older result under the same key.
C21_Witness ==
    \E t \in Tasks, u \in Tasks :
        /\ pc[t] = "hit" /\ pc[u] = "stored"
        /\ Key(call[u]) = Key(call[t])
        /\ Len(cache) = 2
        /\ ret[u].ver < ret[t].ver
        /\ ret[t] = inserted[Key(call[t])]

\* The keyword items of a call or of a key, whatever their order.
Items(kw) == {kw[i] : i \in 1..Len(kw)}

\* Two calls name the same method and pass equal arguments: the same
\* positional arguments and the same keyword items, in any order.
SameRequest(c, d) ==
    /\ c.fn = d.fn
    /\ c.args = d.args
    /\ Items(c.kwargs) = Items(d.kwargs)

\* A call on receiver r finds a live entry that a call on another receiver
\* stored for the same method and arguments.
ServedAcrossReceivers(t, c) ==
    \A i \in 1..Len(cache) :
        (/\ mono < cache[i].expires
         /\ cache[i].key[1] = c.fn
         /\ cache[i].key[2] = c.args
         /\ Items(cache[i].key[3]) = Items(c.kwargs))
        => /\ pc'[t] = "hit"
           /\ ret'[t] = cache[i].value

\* C22: the key of a call is its method name, its positional arguments and
\* its keyword items in the order of their names: two tasks' calls have one key
\* exactly when they name the same method with equal arguments, whatever the
\* receiver and the order the keywords were passed in; a call that finds a
\* live entry for its method and arguments is a hit served the stored value,
\* also when another receiver's call stored it.
C22_KeyIgnoresReceiver ==
    /\ [](\A t \in Tasks :
            LET key == Key(call[t])
            IN /\ \A u \in Tasks :
                    SameRequest(call[t], call[u]) <=> key = Key(call[u])
               /\ key[1] = call[t].fn
               /\ key[2] = call[t].args
               /\ Items(key[3]) = Items(call[t].kwargs)
               /\ \A i \in 1..Len(key[3]) : \A j \in 1..Len(key[3]) :
                      i < j => NameRank(key[3][i][1]) < NameRank(key[3][j][1]))
    /\ [][\A t \in Tasks : \A c \in CallSet :
             Call(t, c) => ServedAcrossReceivers(t, c)]_vars

\* A call on one receiver was served the value another receiver's call had
\* computed and stored, the two calls passing their keywords in different
\* orders.
C22_Witness ==
    \E t \in Tasks, u \in Tasks :
        /\ pc[t] = "hit" /\ pc[u] = "stored"
        /\ call[t].self # call[u].self
        /\ call[t].kwargs # call[u].kwargs
        /\ SameRequest(call[t], call[u])
        /\ ret[t] = ret[u]
        /\ ret[t].self = call[u].self

====
